---- MODULE Spec2Model ----
(***************************************************************************)
(* django-kickstartx: the project generator (generator.py), the create    *)
(* command (cli.py) and the environment bootstrap (venv_utils.py).         *)
(*                                                                         *)
(* A Python str is a sequence of one-character strings, so that the regex  *)
(* of the name check, str.startswith of the path sandbox and               *)
(* Path.resolve() work on characters as they do in the code.  The file     *)
(* system is a function from resolved absolute paths to entries.  There    *)
(* are no symbolic links below the working directory.                      *)
(***************************************************************************)
EXTENDS Integers, Sequences, FiniteSets, TLC

VARIABLES
    fs,        \* the file system: resolved path -> entry
    gen,       \* the ProjectGenerator object of the run, or NoGen
    ctor,      \* the last constructor call: its project_name and exception
    ncalls,    \* number of generate() calls made on gen
    last,      \* the last generate() call: position, exception, paths written, dirs made,
               \* and of every call that ended its exception and its number of writes
    wcall,     \* the last direct _write() call: relative path, exception, fs before
    cli,       \* the create command of this process: arguments, output, exit status
    venv       \* the last create_virtualenv() call: outcome and return value

vars == <<fs, gen, ctor, ncalls, last, wcall, cli, venv>>

-----------------------------------------------------------------------------
(* Bounds of the model *)

MaxNameLen == 2
MaxGenerateCalls == 2

-----------------------------------------------------------------------------
(* Characters and strings *)

AsciiLower == {"a","b","c","d","e","f","g","h","i","j","k","l","m",
               "n","o","p","q","r","s","t","u","v","w","x","y","z"}
AsciiUpper == {"A","B","C","D","E","F","G","H","I","J","K","L","M",
               "N","O","P","Q","R","S","T","U","V","W","X","Y","Z"}
AsciiDigit == {"0","1","2","3","4","5","6","7","8","9"}
\* a letter outside ASCII (U+00E9), which str.isidentifier accepts
NonAsciiLetter == {"é"}

StartsWith(s, prefix) ==
    /\ Len(s) >= Len(prefix)
    /\ SubSeq(s, 1, Len(prefix)) = prefix

\* the project names tried: every string of at most MaxNameLen characters
\* over NameChars, and some longer or with other characters: the default app
\* name, a digit at the end and at the start, a letter outside ASCII
NameChars == {"c", "/", ".", "\n"}
StringsUpTo(n) == UNION {[1..k -> NameChars] : k \in 0..n}
DefaultAppName == <<"c", "o", "r", "e">>
Names == StringsUpTo(MaxNameLen) \cup {DefaultAppName, <<"c", "1">>, <<"1", "c">>, <<"é">>}
\* the app names tried: the default, a sibling directory whose name starts
\* with the project name c, another sibling directory
AppNames == {DefaultAppName, <<".", ".", "/", "c", "1">>, <<".", ".", "/", "o">>}
ProjectTypes == {"mvp", "api"}
ViewStyles == {"fbv", "cbv"}
Databases == {"sqlite", "postgresql"}

\* re.match(r'^[a-zA-Z_][a-zA-Z0-9_]*$', s): '$' matches at the end of the
\* string and also just before a newline that ends the string
RegexBody(s) ==
    /\ Len(s) >= 1
    /\ s[1] \in AsciiLower \cup AsciiUpper \cup {"_"}
    /\ \A i \in 2..Len(s) : s[i] \in AsciiLower \cup AsciiUpper \cup AsciiDigit \cup {"_"}

NameRegexMatches(s) ==
    \/ RegexBody(s)
    \/ /\ Len(s) >= 2
       /\ s[Len(s)] = "\n"
       /\ RegexBody(SubSeq(s, 1, Len(s) - 1))

\* str.isidentifier(): a letter or underscore, then letters, digits, underscores;
\* letters are Unicode letters
IsIdentifier(s) ==
    /\ Len(s) >= 1
    /\ s[1] \in AsciiLower \cup AsciiUpper \cup NonAsciiLetter \cup {"_"}
    /\ \A i \in 2..Len(s) :
          s[i] \in AsciiLower \cup AsciiUpper \cup NonAsciiLetter \cup AsciiDigit \cup {"_"}

-----------------------------------------------------------------------------
(* Paths: pathlib's join and resolve *)

\* the resolved working directory, Path(os.getcwd()).resolve()
Cwd == <<"/", "w">>

RECURSIVE SplitFrom(_, _, _)
\* the components of s between slashes, from position i, cur being the
\* component read so far
SplitFrom(s, i, cur) ==
    IF i > Len(s) THEN <<cur>>
    ELSE IF s[i] = "/" THEN <<cur>> \o SplitFrom(s, i + 1, <<>>)
    ELSE SplitFrom(s, i + 1, Append(cur, s[i]))

RECURSIVE Normalize(_, _, _)
\* resolve(): drop empty and "." components, ".." removes the component
\* before it and stays at the root
Normalize(comps, i, stack) ==
    IF i > Len(comps) THEN stack
    ELSE IF comps[i] = <<>> \/ comps[i] = <<".">> THEN Normalize(comps, i + 1, stack)
    ELSE IF comps[i] = <<".", ".">>
         THEN Normalize(comps, i + 1,
                        IF stack = <<>> THEN stack ELSE SubSeq(stack, 1, Len(stack) - 1))
    ELSE Normalize(comps, i + 1, Append(stack, comps[i]))

RECURSIVE JoinComps(_, _)
JoinComps(comps, i) ==
    IF i > Len(comps) THEN <<>>
    ELSE <<"/">> \o comps[i] \o JoinComps(comps, i + 1)

PathOf(comps) == IF comps = <<>> THEN <<"/">> ELSE JoinComps(comps, 1)

\* base / relative: an absolute right operand replaces the left one
PathJoin(base, relative) ==
    IF relative # <<>> /\ relative[1] = "/" THEN relative
    ELSE base \o <<"/">> \o relative

CompsOf(path) == Normalize(SplitFrom(path, 1, <<>>), 1, <<>>)
Resolve(path) == PathOf(CompsOf(path))

\* the positions of the slashes of a resolved path
SlashesOf(path) == {k \in 1..Len(path) : path[k] = "/"}
LastSlash(path) == CHOOSE k \in SlashesOf(path) : \A j \in SlashesOf(path) : j <= k

\* Path.parent of a resolved path
ParentOf(path) ==
    IF LastSlash(path) = 1 THEN <<"/">> ELSE SubSeq(path, 1, LastSlash(path) - 1)

\* a resolved path and the directories above it, the root excluded
SelfAndAncestors(path) ==
    IF path = <<"/">> THEN {}
    ELSE {path} \cup {SubSeq(path, 1, k - 1) : k \in SlashesOf(path) \ {1}}

-----------------------------------------------------------------------------
(* The file system *)

NoTemplate == "<empty>"
DirEntry == [kind |-> "dir", content |-> "", xbit |-> FALSE]
\* variant of NewFile with a bug: every new file gets the executable bit
NewFileExecutable(content) == [kind |-> "file", content |-> content, xbit |-> TRUE]

\* a file created by open(path, "w"): the default mode has no executable bit
NewFile(content) == [kind |-> "file", content |-> content, xbit |-> FALSE]

Exists(f, path) == path \in DOMAIN f
IsDir(f, path) == Exists(f, path) /\ f[path].kind = "dir"
IsFile(f, path) == Exists(f, path) /\ f[path].kind = "file"

InitFs == (Cwd :> DirEntry)

\* Path.mkdir(parents=True, exist_ok=True): fails when dir or a directory
\* above it exists as a file
MkdirFails(f, dir) == \E a \in SelfAndAncestors(dir) : IsFile(f, a)
MissingDirs(f, dir) == {a \in SelfAndAncestors(dir) : ~Exists(f, a)}
Mkdir(f, dir) ==
    [p \in DOMAIN f \cup MissingDirs(f, dir) |->
        IF p \in DOMAIN f THEN f[p] ELSE DirEntry]

\* Path.write_text(content): creates the file or truncates it, keeping the
\* mode of a file that exists; fails on a directory
WriteTextFails(f, path) == IsDir(f, path)
WrittenFile(f, path, content) ==
    IF IsFile(f, path) THEN [f[path] EXCEPT !.content = content]
    ELSE NewFile(content)
WriteText(f, path, content) ==
    [p \in DOMAIN f \cup {path} |->
        IF p = path THEN WrittenFile(f, path, content) ELSE f[p]]

-----------------------------------------------------------------------------
(* ProjectGenerator *)

NoGen ==
    [constructed |-> FALSE, project_name |-> <<>>, project_type |-> "mvp",
     view_style |-> "fbv", database |-> "sqlite", app_name |-> DefaultAppName,
     with_docker |-> FALSE, output_dir |-> <<>>]

\* ProjectGenerator.__init__: the name check, then the fields
NewGenerator(project_name, project_type, view_style, database, app_name, with_docker) ==
    IF ~NameRegexMatches(project_name)
    THEN [exc |-> "ValueError", obj |-> NoGen]
    ELSE [exc |-> "none",
          obj |-> [constructed |-> TRUE, project_name |-> project_name,
                   project_type |-> project_type, view_style |-> view_style,
                   database |-> database, app_name |-> app_name,
                   with_docker |-> with_docker,
                   output_dir |-> Cwd \o <<"/">> \o project_name]]

W(rel, tpl) == [rel |-> rel, tpl |-> tpl]

\* _create_root_files: its _write calls in order
CreateRootFiles(g) ==
    << W(<<"m", "a", "n", "a", "g", "e", ".", "p", "y">>, "manage.py.j2"),
       W(<<"r", "e", "q", "u", "i", "r", "e", "m", "e", "n", "t", "s", ".", "t", "x", "t">>, "requirements.txt.j2"),
       W(<<".", "e", "n", "v", ".", "e", "x", "a", "m", "p", "l", "e">>, ".env.example.j2"),
       W(<<".", "g", "i", "t", "i", "g", "n", "o", "r", "e">>, ".gitignore.j2") >>

\* _create_project_config
CreateProjectConfig(g) ==
    LET config_dir == g.project_name IN
    << W(config_dir \o <<"/", "_", "_", "i", "n", "i", "t", "_", "_", ".", "p", "y">>, NoTemplate),
       W(config_dir \o <<"/", "s", "e", "t", "t", "i", "n", "g", "s", ".", "p", "y">>, "project/settings.py.j2"),
       W(config_dir \o <<"/", "u", "r", "l", "s", ".", "p", "y">>, "project/urls.py.j2"),
       W(config_dir \o <<"/", "w", "s", "g", "i", ".", "p", "y">>, "project/wsgi.py.j2"),
       W(config_dir \o <<"/", "a", "s", "g", "i", ".", "p", "y">>, "project/asgi.py.j2") >>

\* variant of AppViews with a bug: the view styles pick each other's template
AppViewsSwapped(g) ==
    LET app == g.app_name IN
    IF g.project_type = "api"
    THEN << W(app \o <<"/", "v", "i", "e", "w", "s", ".", "p", "y">>,
              IF g.view_style = "cbv" THEN "app/views_api_fbv.py.j2"
                                      ELSE "app/views_api_cbv.py.j2"),
            W(app \o <<"/", "s", "e", "r", "i", "a", "l", "i", "z", "e", "r", "s", ".", "p", "y">>, "app/serializers.py.j2"),
            W(app \o <<"/", "u", "r", "l", "s", ".", "p", "y">>, "app/urls_api.py.j2") >>
    ELSE << W(app \o <<"/", "v", "i", "e", "w", "s", ".", "p", "y">>,
              IF g.view_style = "cbv" THEN "app/views_fbv.py.j2"
                                      ELSE "app/views_cbv.py.j2"),
            W(app \o <<"/", "u", "r", "l", "s", ".", "p", "y">>, "app/urls_mvp.py.j2"),
            W(app \o <<"/", "f", "o", "r", "m", "s", ".", "p", "y">>, "app/forms.py.j2") >>

\* the views branch of _create_app
AppViews(g) ==
    LET app == g.app_name IN
    IF g.project_type = "api"
    THEN << W(app \o <<"/", "v", "i", "e", "w", "s", ".", "p", "y">>,
              IF g.view_style = "cbv" THEN "app/views_api_cbv.py.j2"
                                      ELSE "app/views_api_fbv.py.j2"),
            W(app \o <<"/", "s", "e", "r", "i", "a", "l", "i", "z", "e", "r", "s", ".", "p", "y">>, "app/serializers.py.j2"),
            W(app \o <<"/", "u", "r", "l", "s", ".", "p", "y">>, "app/urls_api.py.j2") >>
    ELSE << W(app \o <<"/", "v", "i", "e", "w", "s", ".", "p", "y">>,
              IF g.view_style = "cbv" THEN "app/views_cbv.py.j2"
                                      ELSE "app/views_fbv.py.j2"),
            W(app \o <<"/", "u", "r", "l", "s", ".", "p", "y">>, "app/urls_mvp.py.j2"),
            W(app \o <<"/", "f", "o", "r", "m", "s", ".", "p", "y">>, "app/forms.py.j2") >>

\* _create_app
CreateApp(g) ==
    LET app == g.app_name IN
    << W(app \o <<"/", "_", "_", "i", "n", "i", "t", "_", "_", ".", "p", "y">>, NoTemplate),
       W(app \o <<"/", "a", "d", "m", "i", "n", ".", "p", "y">>, "app/admin.py.j2"),
       W(app \o <<"/", "a", "p", "p", "s", ".", "p", "y">>, "app/apps.py.j2"),
       W(app \o <<"/", "m", "o", "d", "e", "l", "s", ".", "p", "y">>, "app/models.py.j2"),
       W(app \o <<"/", "t", "e", "s", "t", "s", ".", "p", "y">>, "app/tests.py.j2") >> \o AppViews(g)

\* _create_templates
CreateTemplates(g) ==
    LET tpl_dir == g.app_name \o <<"/", "t", "e", "m", "p", "l", "a", "t", "e", "s", "/">> \o g.app_name IN
    << W(tpl_dir \o <<"/", "b", "a", "s", "e", ".", "h", "t", "m", "l">>, "html/base.html.j2"),
       W(tpl_dir \o <<"/", "h", "o", "m", "e", ".", "h", "t", "m", "l">>, "html/home.html.j2"),
       W(tpl_dir \o <<"/", "a", "b", "o", "u", "t", ".", "h", "t", "m", "l">>, "html/about.html.j2") >>

\* _create_static_files
CreateStaticFiles(g) ==
    << W(<<"s", "t", "a", "t", "i", "c", "/", "c", "s", "s", "/", "s", "t", "y", "l", "e", ".", "c", "s", "s">>, "static/style.css.j2") >>

\* variant of CreateDockerFiles with a bug: the entrypoint whatever the database
CreateDockerFilesAnyDatabase(g) ==
    << W(<<"D", "o", "c", "k", "e", "r", "f", "i", "l", "e">>, "Dockerfile.j2"),
       W(<<"d", "o", "c", "k", "e", "r", "-", "c", "o", "m", "p", "o", "s", "e", ".", "y", "m", "l">>, "docker-compose.yml.j2"),
       W(<<".", "d", "o", "c", "k", "e", "r", "i", "g", "n", "o", "r", "e">>, ".dockerignore.j2"),
       W(<<"e", "n", "t", "r", "y", "p", "o", "i", "n", "t", ".", "s", "h">>, "entrypoint.sh.j2") >>

\* _create_docker_files
CreateDockerFiles(g) ==
    << W(<<"D", "o", "c", "k", "e", "r", "f", "i", "l", "e">>, "Dockerfile.j2"),
       W(<<"d", "o", "c", "k", "e", "r", "-", "c", "o", "m", "p", "o", "s", "e", ".", "y", "m", "l">>, "docker-compose.yml.j2"),
       W(<<".", "d", "o", "c", "k", "e", "r", "i", "g", "n", "o", "r", "e">>, ".dockerignore.j2") >>
    \o (IF g.database = "postgresql"
        THEN << W(<<"e", "n", "t", "r", "y", "p", "o", "i", "n", "t", ".", "s", "h">>, "entrypoint.sh.j2") >>
        ELSE <<>>)

\* the _write calls of generate() after its existence check, in order
Plan(g) ==
    CreateRootFiles(g) \o CreateProjectConfig(g) \o CreateApp(g)
    \o (IF g.with_docker THEN CreateDockerFiles(g) ELSE <<>>)
    \o (IF g.project_type = "mvp"
        THEN CreateTemplates(g) \o CreateStaticFiles(g)
        ELSE <<>>)

\* the containment check of _write: str(full_path).startswith(str(output_dir))
InSandbox(full_path, output_dir) == StartsWith(full_path, output_dir)

\* full_path of _write: (self.output_dir / relative_path).resolve()
FullPath(g, relative_path) == Resolve(PathJoin(g.output_dir, relative_path))

\* variant of Write with a bug: a failing mkdir or write_text removes the
\* output directory and all below it
WriteWithRollback(g, f, full_path, content, fault) ==
    IF ~InSandbox(full_path, g.output_dir)
    THEN [exc |-> "ValueError", fs |-> f, made |-> {}, wrote |-> <<>>]
    ELSE IF IsFile(f, ParentOf(full_path))
    THEN [exc |-> "FileExistsError", fs |-> f, made |-> {}, wrote |-> <<>>]
    ELSE IF fault \in {"mkdir", "write_text"} \/ MkdirFails(f, ParentOf(full_path))
              \/ WriteTextFails(f, full_path)
    THEN [exc |-> "OSError",
          fs |-> [p \in {q \in DOMAIN f : ~StartsWith(q, g.output_dir)} |-> f[p]],
          made |-> {}, wrote |-> <<>>]
    ELSE [exc |-> "none",
          fs |-> WriteText(Mkdir(f, ParentOf(full_path)), full_path, content),
          made |-> MissingDirs(f, ParentOf(full_path)), wrote |-> <<full_path>>]

\* _write(relative_path, content) on file system f, full_path being
\* FullPath(g, relative_path).  fault is what the operating system refuses
\* in this call: "mkdir", "write_text" or "none"
Write(g, f, full_path, content, fault) ==
    IF ~InSandbox(full_path, g.output_dir)
    THEN [exc |-> "ValueError", fs |-> f, made |-> {}, wrote |-> <<>>]
    ELSE IF IsFile(f, ParentOf(full_path))
    THEN [exc |-> "FileExistsError", fs |-> f, made |-> {}, wrote |-> <<>>]
    ELSE IF fault = "mkdir" \/ MkdirFails(f, ParentOf(full_path))
    THEN [exc |-> "OSError", fs |-> f, made |-> {}, wrote |-> <<>>]
    ELSE IF fault = "write_text" \/ WriteTextFails(f, full_path)
    THEN [exc |-> "OSError", fs |-> Mkdir(f, ParentOf(full_path)),
          made |-> MissingDirs(f, ParentOf(full_path)), wrote |-> <<>>]
    ELSE [exc |-> "none",
          fs |-> WriteText(Mkdir(f, ParentOf(full_path)), full_path, content),
          made |-> MissingDirs(f, ParentOf(full_path)), wrote |-> <<full_path>>]

\* _render(template_name): the content is identified by its template;
\* the template may be missing from the catalog
Render(template_name, missing) ==
    IF missing THEN [exc |-> "TemplateNotFound", content |-> ""]
    ELSE [exc |-> "none", content |-> template_name]

\* what the environment can refuse in the _write call of a plan entry
Faults(step) ==
    {"none", "mkdir", "write_text"}
    \cup (IF step.tpl = NoTemplate THEN {} ELSE {"render"})

\* variant of OutputDirExists with a bug: the check never finds the directory
OutputDirExistsNever(g, f) == FALSE

\* the existence check of generate()
OutputDirExists(g, f) == Exists(f, g.output_dir)

-----------------------------------------------------------------------------
(* create_virtualenv *)

\* what the two external commands of create_virtualenv do in one call:
\* "python -m venv" succeeds, exits non-zero or cannot be started; the venv
\* it makes holds pip or not; "pip install -r" succeeds or exits non-zero
VenvOutcomes ==
    [venv : {"ok", "CalledProcessError", "FileNotFoundError"},
     pip_exists : BOOLEAN,
     install : {"ok", "CalledProcessError"}]
NoOutcome == [venv |-> "ok", pip_exists |-> TRUE, install |-> "ok"]

\* _get_venv_pip on a POSIX system
GetVenvPip(venv_dir) == venv_dir \o <<"/", "b", "i", "n", "/", "p", "i", "p">>

\* the entries a successful "python -m venv venv_dir" adds; it touches
\* nothing outside venv_dir
VenvEntries(venv_dir, pip_exists) ==
    LET dirs == SelfAndAncestors(venv_dir \o <<"/", "b", "i", "n">>)
        cfg == venv_dir \o <<"/", "p", "y", "v", "e", "n", "v", ".", "c", "f", "g">>
        pip == GetVenvPip(venv_dir)
        files == {cfg} \cup (IF pip_exists THEN {pip} ELSE {})
    IN  [p \in dirs \cup files |->
            IF p \in dirs THEN DirEntry
            ELSE [kind |-> "file", content |-> "<venv>", xbit |-> p = pip]]

RunVenv(f, venv_dir, pip_exists) ==
    LET add == VenvEntries(venv_dir, pip_exists)
    IN  [p \in DOMAIN f \cup DOMAIN add |-> IF p \in DOMAIN f THEN f[p] ELSE add[p]]

\* create_virtualenv(project_dir) on file system f
CreateVirtualenv(f, project_dir, outcome) ==
    LET venv_dir == project_dir \o <<"/", "v", "e", "n", "v">>
        requirements_file == project_dir \o <<"/", "r", "e", "q", "u", "i", "r", "e", "m", "e", "n", "t", "s", ".", "t", "x", "t">>
        none == [ret |-> FALSE, fs |-> f, created |-> FALSE,
                 pip_attempted |-> FALSE, installed |-> FALSE]
    IN  IF outcome.venv # "ok" THEN none
        ELSE IF ~outcome.pip_exists
        THEN [none EXCEPT !.fs = RunVenv(f, venv_dir, FALSE), !.created = TRUE]
        ELSE IF ~Exists(f, requirements_file)
        THEN [none EXCEPT !.ret = TRUE, !.fs = RunVenv(f, venv_dir, TRUE),
                          !.created = TRUE]
        ELSE IF outcome.install # "ok"
        THEN [none EXCEPT !.fs = RunVenv(f, venv_dir, TRUE), !.created = TRUE,
                          !.pip_attempted = TRUE]
        ELSE [none EXCEPT !.ret = TRUE, !.fs = RunVenv(f, venv_dir, TRUE),
                          !.created = TRUE, !.pip_attempted = TRUE,
                          !.installed = TRUE]

-----------------------------------------------------------------------------
(* The create command *)

\* the exceptions of generate() that create catches and reports with echo
Caught(exc) == exc \in {"FileExistsError", "ValueError"}

\* variant of Aborts with a bug: the handler of FileExistsError reports the
\* error and goes on
AbortsUnlessFileExists(exc) == exc \notin {"none", "FileExistsError"}

\* generate() ended with an exception: create does not go on, whether it
\* catches the exception (SystemExit(1)) or the exception leaves the command
Aborts(exc) == exc # "none"

\* what the message of an exception of generate() names: the output
\* directory or the path of the file system call, the relative path that
\* escapes, the template that is missing
MessageNames(exc) ==
    CASE exc = "FileExistsError" -> "path"
      [] exc = "OSError" -> "path"
      [] exc = "ValueError" -> "relative_path"
      [] exc = "TemplateNotFound" -> "template"
      [] OTHER -> "nothing"

\* "if not no_venv"
VenvWanted(no_venv) == ~no_venv

\* variant of ExitStatusAtEnd with a bug: a failed bootstrap fails the command
ExitStatusIfVenv(venv_created) == IF venv_created THEN 0 ELSE 1

\* the exit status of a create command that reaches its last line
ExitStatusAtEnd(venv_created) == 0

-----------------------------------------------------------------------------
(* The state *)

NoCall == [pc |-> "idle", i |-> 0, exc |-> "none", written |-> <<>>, made |-> {},
           before |-> InitFs, template |-> "", path |-> <<>>, results |-> <<>>,
           counts |-> <<>>]
NoCtor == [called |-> FALSE, project_name |-> <<>>, exc |-> "none"]
NoWrite == [called |-> FALSE, rel |-> <<>>, exc |-> "none", made |-> {},
            wrote |-> <<>>, before |-> InitFs]
NoError == [kind |-> "none", names |-> "nothing"]
NoCli == [pc |-> "start", project_name |-> <<>>, no_venv |-> FALSE, out |-> <<>>,
          err |-> NoError, exit_status |-> -1, tree |-> InitFs]
NoVenv == [calls |-> 0, ret |-> FALSE, created |-> FALSE, pip_attempted |-> FALSE,
           installed |-> FALSE, before |-> InitFs]

InitRest ==
    /\ gen = NoGen
    /\ ctor = NoCtor
    /\ ncalls = 0
    /\ last = NoCall
    /\ wcall = NoWrite
    /\ cli = NoCli
    /\ venv = NoVenv

\* an empty working directory
Init == fs = InitFs /\ InitRest

\* a caller constructs the generator of this run
New ==
    /\ ~ctor.called
    /\ cli.pc = "start"
    /\ \E project_name \in Names, project_type \in ProjectTypes,
          view_style \in ViewStyles, database \in Databases,
          app_name \in AppNames, with_docker \in BOOLEAN :
          \E r \in {NewGenerator(project_name, project_type, view_style,
                                 database, app_name, with_docker)} :
              /\ gen' = r.obj
              /\ ctor' = [called |-> TRUE, project_name |-> project_name,
                          exc |-> r.exc]
    /\ UNCHANGED <<fs, ncalls, last, wcall, cli, venv>>

\* generate() is entered: its existence check
GenerateEnter(g) ==
    /\ g.constructed
    /\ last.pc # "running"
    /\ ncalls < MaxGenerateCalls
    /\ ncalls' = ncalls + 1
    /\ last' = IF OutputDirExists(g, fs)
               THEN [NoCall EXCEPT !.pc = "raised", !.exc = "FileExistsError",
                                   !.path = g.output_dir, !.before = fs,
                                   !.results = Append(last.results, "FileExistsError"),
                                   !.counts = Append(last.counts, 0)]
               ELSE [NoCall EXCEPT !.pc = "running", !.i = 1, !.before = fs,
                                   !.results = last.results,
                                   !.counts = last.counts]
    /\ UNCHANGED <<fs, gen, ctor>>

\* generate() runs its next _write call: the render of the content, then
\* _write.  An exception ends generate(); the last call returns from it
GenerateStep(g) ==
    /\ last.pc = "running"
    /\ \E plan \in {Plan(g)} :
       \E step \in {plan[last.i]} :
       \E full_path \in {FullPath(g, step.rel)}, fault \in Faults(step) :
       \E r \in {IF step.tpl = NoTemplate THEN [exc |-> "none", content |-> ""]
                 ELSE Render(step.tpl, fault = "render")} :
          IF r.exc # "none"
          THEN /\ fs' = fs
               /\ last' = [last EXCEPT !.pc = "raised", !.exc = r.exc,
                                       !.template = step.tpl,
                                       !.results = Append(@, r.exc),
                                       !.counts = Append(@, Len(last.written))]
          ELSE \E w \in {Write(g, fs, full_path, r.content, fault)} :
               /\ fs' = w.fs
               /\ last' = IF w.exc # "none"
                          THEN [last EXCEPT !.pc = "raised", !.exc = w.exc,
                                            !.path = step.rel,
                                            !.made = @ \cup w.made,
                                            !.results = Append(@, w.exc),
                                            !.counts = Append(@, Len(last.written))]
                          ELSE IF last.i = Len(plan)
                          THEN [last EXCEPT !.pc = "returned",
                                            !.made = @ \cup w.made,
                                            !.written = @ \o w.wrote,
                                            !.results = Append(@, "none"),
                                            !.counts = Append(@, Len(last.written)
                                                                  + Len(w.wrote))]
                          ELSE [last EXCEPT !.i = @ + 1,
                                            !.made = @ \cup w.made,
                                            !.written = @ \o w.wrote]
    /\ UNCHANGED <<gen, ctor, ncalls>>

\* a caller calls generate() on the generator
Generate ==
    /\ cli.pc = "start"
    /\ ~wcall.called
    /\ venv.calls = 0
    /\ GenerateEnter(gen)
    /\ UNCHANGED <<wcall, cli, venv>>

\* the generate() call of the caller goes on
Step ==
    /\ cli.pc = "start"
    /\ GenerateStep(gen)
    /\ UNCHANGED <<wcall, cli, venv>>

Next == New \/ Generate \/ Step

Spec == Init /\ [][Next]_vars

-----------------------------------------------------------------------------
(* Direct calls of _write *)

\* the relative paths tried
RelPaths ==
    {<<"f">>, <<"d", "/", "f">>, <<".">>, <<".", ".">>, <<".", ".", "/", "f">>, <<".", ".", "/", "c", "/", "f">>, <<".", ".", "/", "c", "1", "/", "f">>, <<".", ".", "/", ".", ".", "/", "e", "t", "c", "/", "p", "a", "s", "s", "w", "d">>, <<"/", "e", "t", "c", "/", "p", "a", "s", "s", "w", "d">>}

\* a caller calls _write(relative_path, content) on a fresh generator
DirectWrite ==
    /\ gen.constructed
    /\ cli.pc = "start"
    /\ ncalls = 0
    /\ ~wcall.called
    /\ \E relative_path \in RelPaths, fault \in {"none", "mkdir", "write_text"} :
       \E full_path \in {FullPath(gen, relative_path)} :
       \E w \in {Write(gen, fs, full_path, "content", fault)} :
              /\ fs' = w.fs
              /\ wcall' = [called |-> TRUE, rel |-> relative_path, exc |-> w.exc,
                           made |-> w.made, wrote |-> w.wrote, before |-> fs]
    /\ UNCHANGED <<gen, ctor, ncalls, last, cli, venv>>

NextWrite == New \/ DirectWrite

SpecWrite == Init /\ [][NextWrite]_vars

-----------------------------------------------------------------------------
(* Direct calls of create_virtualenv *)

\* a caller calls create_virtualenv(output_dir) when no generate() is running
VenvCall ==
    /\ gen.constructed
    /\ cli.pc = "start"
    /\ last.pc # "running"
    /\ venv.calls = 0
    /\ \E outcome \in VenvOutcomes :
       \E v \in {CreateVirtualenv(fs, gen.output_dir, outcome)} :
              /\ fs' = v.fs
              /\ venv' = [calls |-> 1, ret |-> v.ret, created |-> v.created,
                          pip_attempted |-> v.pip_attempted,
                          installed |-> v.installed, before |-> fs]
    /\ UNCHANGED <<gen, ctor, ncalls, last, wcall, cli>>

NextVenv == New \/ Generate \/ Step \/ VenvCall

SpecVenv == Init /\ [][NextVenv]_vars

-----------------------------------------------------------------------------
(* The create command, one per process *)

\* the working directory is empty or holds a directory of an earlier run
CliInitialFs == {InitFs, Mkdir(InitFs, Cwd \o <<"/", "c">>)}
InitCli == fs \in CliInitialFs /\ InitRest

\* the command ends: its exit status and its last output, the success message
\* or an error (echoed, or the traceback of an exception nobody caught)
Exited(c, status, kind, names) ==
    [c EXCEPT !.pc = "exited", !.exit_status = status,
              !.out = Append(@, IF status = 0 THEN "success" ELSE "error"),
              !.err = [kind |-> kind, names |-> names]]

\* create up to the construction of the generator: the banner, the
\* isidentifier check, the prompts for the options not given
CliCreate ==
    /\ cli.pc = "start"
    /\ ~ctor.called
    /\ \E project_name \in Names, project_type \in ProjectTypes,
          view_style \in ViewStyles, database \in Databases,
          no_venv \in BOOLEAN, with_docker \in BOOLEAN :
          LET c == [cli EXCEPT !.project_name = project_name, !.no_venv = no_venv,
                               !.out = <<"banner">>]
              r == NewGenerator(project_name, project_type, view_style,
                                database, DefaultAppName, with_docker)
          IN  IF ~IsIdentifier(project_name)
              THEN /\ cli' = Exited(c, 1, "echo", "project_name")
                   /\ UNCHANGED <<gen, ctor>>
              ELSE /\ gen' = r.obj
                   /\ ctor' = [called |-> TRUE, project_name |-> project_name,
                               exc |-> r.exc]
                   /\ cli' = IF r.exc # "none"
                             THEN Exited(c, 1, "traceback", "project_name")
                             ELSE [c EXCEPT !.pc = "constructed"]
    /\ UNCHANGED <<fs, ncalls, last, wcall, venv>>

\* create calls generator.generate()
CliGenerate ==
    /\ cli.pc = "constructed"
    /\ GenerateEnter(gen)
    /\ cli' = [cli EXCEPT !.pc = "generating"]
    /\ UNCHANGED <<wcall, venv>>

\* the generate() call of create goes on
CliStep ==
    /\ cli.pc = "generating"
    /\ GenerateStep(gen)
    /\ UNCHANGED <<wcall, cli, venv>>

\* create after generate(): an exception ends the command; otherwise the
\* virtual environment unless --no-venv, then the success message
CliFinish ==
    /\ cli.pc = "generating"
    /\ last.pc \in {"returned", "raised"}
    /\ IF Aborts(last.exc)
       THEN /\ cli' = Exited(cli, 1, IF Caught(last.exc) THEN "echo" ELSE "traceback",
                             MessageNames(last.exc))
            /\ UNCHANGED <<fs, venv>>
       ELSE \E outcome \in IF VenvWanted(cli.no_venv) THEN VenvOutcomes ELSE {NoOutcome} :
            \E v \in {CreateVirtualenv(fs, gen.output_dir, outcome)} :
               LET c == [cli EXCEPT !.tree = fs,
                                    !.out = IF VenvWanted(cli.no_venv)
                                            THEN Append(@, "create_virtualenv") ELSE @]
               IN  IF VenvWanted(cli.no_venv)
                   THEN /\ fs' = v.fs
                        /\ venv' = [calls |-> venv.calls + 1, ret |-> v.ret,
                                    created |-> v.created,
                                    pip_attempted |-> v.pip_attempted,
                                    installed |-> v.installed, before |-> fs]
                        /\ cli' = Exited(c, ExitStatusAtEnd(v.ret), "none", "nothing")
                   ELSE /\ UNCHANGED <<fs, venv>>
                        /\ cli' = Exited(c, ExitStatusAtEnd(FALSE), "none", "nothing")
    /\ UNCHANGED <<gen, ctor, ncalls, last, wcall>>

NextCli == CliCreate \/ CliGenerate \/ CliStep \/ CliFinish

SpecCli == InitCli /\ [][NextCli]_vars

-----------------------------------------------------------------------------
(* Properties *)

\* a non-empty string of letters, digits and underscores that does not
\* start with a digit
IdentifierGrammar(s) ==
    /\ Len(s) >= 1
    /\ s[1] \notin AsciiDigit
    /\ \A i \in 1..Len(s) : s[i] \in AsciiLower \cup AsciiUpper \cup AsciiDigit \cup {"_"}

\* path is root or lies below it
IsUnder(path, root) == path = root \/ StartsWith(path, root \o <<"/">>)

Range(seq) == {seq[i] : i \in 1..Len(seq)}
Occurrences(seq, x) == Cardinality({i \in 1..Len(seq) : seq[i] = x})

\* the file of the generated tree at a path relative to the output root
FileAt(rel) == FullPath(gen, rel)
Present(rel) == IsFile(fs, FileAt(rel))
AppFile(name) == gen.app_name \o <<"/">> \o name
ConfigFile(name) == gen.project_name \o <<"/">> \o name
HtmlFile(name) == gen.app_name \o <<"/", "t", "e", "m", "p", "l", "a", "t", "e", "s", "/">> \o gen.app_name \o <<"/">> \o name

\* C1: every project name outside the identifier grammar is rejected with
\* the invalid-name error before any file system entry is created (ValueError
\* from the constructor, exit status 1 from create), so every generator that
\* is constructed has a name of the grammar
C1_InvalidNameRejected ==
    /\ (ctor.called /\ ~IdentifierGrammar(ctor.project_name))
          => (ctor.exc = "ValueError" /\ ~gen.constructed /\ fs = InitFs)
    /\ gen.constructed => IdentifierGrammar(gen.project_name)
    /\ (cli.pc = "exited" /\ ~IdentifierGrammar(cli.project_name))
          => (cli.exit_status = 1 /\ fs \in CliInitialFs)

\* C2: once a generate() call has succeeded, every later call with the same
\* generator fails with FileExistsError at the existence check: it writes no
\* file, makes no directory and leaves the file system as it was
C2_SecondGenerateFails ==
    /\ \A j \in 1..Len(last.results) :
          (\E i \in 1..(j - 1) : last.results[i] = "none")
             => last.results[j] = "FileExistsError"
    /\ (\E i \in 1..Len(last.results) : last.results[i] = "none")
          => (/\ IsDir(fs, gen.output_dir)
              /\ ncalls > Len(last.results) => last.pc # "running"
              /\ ncalls > 1 /\ last.pc = "raised"
                    => /\ last.exc = "FileExistsError"
                       /\ last.i = 0
                       /\ last.written = <<>>
                       /\ last.made = {}
                       /\ fs = last.before)

C2_Witness ==
    /\ Len(last.results) = 2
    /\ last.results[1] = "none"
    /\ last.results[2] = "FileExistsError"
    /\ fs = last.before

\* the entries right below the working directory that the last generate()
\* call added
NewTopLevel == {p \in DOMAIN fs \ DOMAIN last.before : ParentOf(p) = Cwd}

\* C3: whatever the constructor arguments, a generate() run makes or writes
\* nothing outside the output directory, and a run that returns has made
\* exactly one entry below the working directory, the output directory
C3_OnlyOutputDirTouched ==
    last.pc \in {"running", "returned", "raised"}
       => /\ \A p \in last.made \cup Range(last.written) : IsUnder(p, gen.output_dir)
          /\ \A p \in DOMAIN fs \ DOMAIN last.before : IsUnder(p, gen.output_dir)
          /\ last.pc = "returned" => NewTopLevel = {gen.output_dir}

\* C4: _write raises the path-escape error, makes no directory and writes no
\* file whenever the resolved path is neither the output root nor below it
C4_EscapeRejected ==
    (wcall.called /\ ~IsUnder(FullPath(gen, wcall.rel), gen.output_dir))
       => /\ wcall.exc = "ValueError"
          /\ wcall.made = {}
          /\ wcall.wrote = <<>>
          /\ fs = wcall.before

\* the views template of a combination
ViewsTemplateOf(project_type, view_style) ==
    CASE project_type = "api" /\ view_style = "cbv" -> "app/views_api_cbv.py.j2"
      [] project_type = "api" /\ view_style = "fbv" -> "app/views_api_fbv.py.j2"
      [] project_type = "mvp" /\ view_style = "cbv" -> "app/views_cbv.py.j2"
      [] project_type = "mvp" /\ view_style = "fbv" -> "app/views_fbv.py.j2"

MvpOnlyFiles ==
    {AppFile(<<"f", "o", "r", "m", "s", ".", "p", "y">>), HtmlFile(<<"b", "a", "s", "e", ".", "h", "t", "m", "l">>), HtmlFile(<<"h", "o", "m", "e", ".", "h", "t", "m", "l">>),
     HtmlFile(<<"a", "b", "o", "u", "t", ".", "h", "t", "m", "l">>), <<"s", "t", "a", "t", "i", "c", "/", "c", "s", "s", "/", "s", "t", "y", "l", "e", ".", "c", "s", "s">>}

CommonFiles ==
    {<<"m", "a", "n", "a", "g", "e", ".", "p", "y">>, <<"r", "e", "q", "u", "i", "r", "e", "m", "e", "n", "t", "s", ".", "t", "x", "t">>, <<".", "e", "n", "v", ".", "e", "x", "a", "m", "p", "l", "e">>, <<".", "g", "i", "t", "i", "g", "n", "o", "r", "e">>,
     ConfigFile(<<"s", "e", "t", "t", "i", "n", "g", "s", ".", "p", "y">>), ConfigFile(<<"u", "r", "l", "s", ".", "p", "y">>), ConfigFile(<<"w", "s", "g", "i", ".", "p", "y">>),
     ConfigFile(<<"a", "s", "g", "i", ".", "p", "y">>),
     AppFile(<<"a", "d", "m", "i", "n", ".", "p", "y">>), AppFile(<<"a", "p", "p", "s", ".", "p", "y">>), AppFile(<<"m", "o", "d", "e", "l", "s", ".", "p", "y">>), AppFile(<<"t", "e", "s", "t", "s", ".", "p", "y">>)}

C6_DockerFiles ==
    last.pc = "returned"
       => /\ \A rel \in {<<"D", "o", "c", "k", "e", "r", "f", "i", "l", "e">>, <<"d", "o", "c", "k", "e", "r", "-", "c", "o", "m", "p", "o", "s", "e", ".", "y", "m", "l">>, <<".", "d", "o", "c", "k", "e", "r", "i", "g", "n", "o", "r", "e">>} :
                Present(rel) <=> gen.with_docker
          /\ Present(<<"e", "n", "t", "r", "y", "p", "o", "i", "n", "t", ".", "s", "h">>)
                <=> (gen.with_docker /\ gen.database = "postgresql")

C6_Witness ==
    /\ last.pc = "returned"
    /\ gen.with_docker
    /\ gen.database = "sqlite"
    /\ Present(<<"D", "o", "c", "k", "e", "r", "f", "i", "l", "e">>)
    /\ ~Present(<<"e", "n", "t", "r", "y", "p", "o", "i", "n", "t", ".", "s", "h">>)

EntrypointWritten ==
    /\ last.pc = "returned"
    /\ gen.with_docker
    /\ gen.database = "postgresql"

\* C7 as stated: with containerization and postgresql, the entrypoint.sh that
\* generate() wrote has its executable bit set
C7_EntrypointExecutable ==
    EntrypointWritten => fs[FileAt(<<"e", "n", "t", "r", "y", "p", "o", "i", "n", "t", ".", "s", "h">>)].xbit

\* C7 as the code has it: with containerization and postgresql, generate()
\* writes entrypoint.sh and leaves it at the mode of file creation, without
\* the executable bit
C7_EntrypointDefaultMode ==
    EntrypointWritten
       => /\ Present(<<"e", "n", "t", "r", "y", "p", "o", "i", "n", "t", ".", "s", "h">>)
          /\ ~fs[FileAt(<<"e", "n", "t", "r", "y", "p", "o", "i", "n", "t", ".", "s", "h">>)].xbit

C7_Witness ==
    /\ EntrypointWritten
    /\ Present(<<"e", "n", "t", "r", "y", "p", "o", "i", "n", "t", ".", "s", "h">>)
    /\ fs[FileAt(<<"e", "n", "t", "r", "y", "p", "o", "i", "n", "t", ".", "s", "h">>)].content = "entrypoint.sh.j2"

\* every file of the plan of the generator is in the tree
Populated(f) ==
    \A i \in 1..Len(Plan(gen)) : IsFile(f, FullPath(gen, Plan(gen)[i].rel))

\* the create command failed in the core: the name is invalid, or generate()
\* ended with an exception
CoreFailed ==
    \/ ~IsIdentifier(cli.project_name)
    \/ ctor.exc # "none"
    \/ last.pc = "raised"

C9_BootstrapAfterCore ==
    /\ venv.calls <= 1
    /\ Occurrences(cli.out, "create_virtualenv") = venv.calls
    /\ venv.calls = 1
          => /\ last.pc = "returned"
             /\ ~cli.no_venv
             /\ venv.before = cli.tree
             /\ Populated(venv.before)
    /\ (cli.pc = "exited" /\ cli.no_venv) => venv.calls = 0
    /\ (cli.pc = "exited" /\ venv.calls = 1 /\ ~venv.ret)
          => /\ cli.exit_status = 0
             /\ cli.out[Len(cli.out)] = "success"
             /\ \A p \in DOMAIN cli.tree : p \in DOMAIN fs /\ fs[p] = cli.tree[p]

C9_Witness ==
    /\ cli.pc = "exited"
    /\ venv.calls = 1
    /\ ~venv.ret
    /\ venv.created
    /\ venv.pip_attempted
    /\ cli.exit_status = 0

\* C10: create_virtualenv returns True exactly when the virtual environment
\* was created and the dependencies of requirements.txt were installed, and
\* pip install is attempted only after the venv was created
C10_TrueIffInstalled ==
    venv.calls > 0
       => /\ venv.ret <=> (venv.created /\ venv.installed)
          /\ venv.pip_attempted => venv.created

\* C11: within one generate() run no two _write calls target the same
\* resolved path, whatever the accepted project name (the app name included)
\* and the options: no write of the run overwrites an earlier one
C11_PathsWrittenOnce ==
    \A i, j \in 1..Len(last.written) :
       last.written[i] = last.written[j] => i = j

\* the content that the k-th _write call of the plan writes
ContentOfStep(plan, k) == IF plan[k].tpl = NoTemplate THEN "" ELSE plan[k].tpl

\* the files that the last generate() call wrote are the first writes of the
\* plan, in order, and each is on disk with the content of the last of them
\* that wrote it
WrittenIsPrefixOnDisk ==
    \E plan \in {Plan(gen)} :
       /\ Len(last.written) <= Len(plan)
       /\ \A k \in 1..Len(last.written) :
             /\ last.written[k] = FullPath(gen, plan[k].rel)
             /\ IsFile(fs, last.written[k])
             /\ \E m \in k..Len(last.written) :
                   /\ last.written[m] = last.written[k]
                   /\ \A n \in (m + 1)..Len(last.written) :
                         last.written[n] # last.written[k]
                   /\ fs[last.written[k]].content = ContentOfStep(plan, m)

\* the call of generate() numbered i ended with an exception after it had
\* written a file
FailedAfterWrite(i) ==
    /\ last.results[i] \notin {"none", "FileExistsError"}
    /\ last.counts[i] >= 1

\* C12: a generate() run that fails at a render or write step does no
\* cleanup and no retry: the files it wrote, a prefix of the writes of the
\* plan, stay on disk with their content and what was there before stays;
\* once such a run has written a file, every later generate() of the
\* generator fails with FileExistsError and changes nothing; a run that
\* returns has made all the writes of the plan
C12_NoCleanup ==
    /\ Len(last.results) = ncalls - (IF last.pc = "running" THEN 1 ELSE 0)
    /\ Len(last.counts) = Len(last.results)
    /\ \A j \in 1..Len(last.results) :
          (\E i \in 1..(j - 1) : FailedAfterWrite(i))
             => (last.results[j] = "FileExistsError" /\ last.counts[j] = 0)
    /\ (last.pc = "raised" /\ last.i = 0)
          => (last.exc = "FileExistsError" /\ fs = last.before)
    /\ (last.pc = "raised" /\ last.i >= 1)
          => /\ last.exc \in {"TemplateNotFound", "OSError", "ValueError", "FileExistsError"}
             /\ Len(last.written) = last.i - 1
             /\ WrittenIsPrefixOnDisk
             /\ \A p \in DOMAIN last.before : p \in DOMAIN fs /\ fs[p] = last.before[p]
             /\ last.written # <<>> => IsDir(fs, gen.output_dir)
    /\ last.pc = "returned"
          => /\ Len(last.written) = Len(Plan(gen))
             /\ WrittenIsPrefixOnDisk

C12_Witness ==
    /\ Len(last.results) = 2
    /\ last.results[1] = "TemplateNotFound"
    /\ last.counts[1] >= 1
    /\ last.results[2] = "FileExistsError"
    /\ last.pc = "raised"
    /\ fs = last.before
    /\ Present(<<"m", "a", "n", "a", "g", "e", ".", "p", "y">>)
    /\ ~Present(<<".", "g", "i", "t", "i", "g", "n", "o", "r", "e">>)
====
